---------------------------- MODULE Spec2Model ----------------------------
(***************************************************************************)
(* A model of the differential-drive odometer of src/Odometer/Odometer.cpp *)
(* together with the two wheel encoders and the millisecond clock it       *)
(* polls.                                                                  *)
(*                                                                         *)
(* Numbers.  The C++ code computes in double.  The model computes with     *)
(* exact integers on a lattice:                                            *)
(*   - angles are counted in quarter turns, so that pi is PI = 2 units,    *)
(*     and sin, cos and atan2 are exact on every angle of the lattice;     *)
(*   - wheel diameters and the track width are integers in one length      *)
(*     unit; every length the code derives through PI (distancePerCount,   *)
(*     the wheel distances, X, Y) is then counted in pi/2 of that unit,    *)
(*     which is exactly what the substitution PI = 2 computes;             *)
(*   - the calibrations offered to setup are chosen on the lattice: each   *)
(*     quotient and each halving of the pose arithmetic is exact for       *)
(*     them.  Only the velocity quotient (by the elapsed milliseconds)     *)
(*     may round.                                                          *)
(* The model therefore says what the code computes in real arithmetic; it  *)
(* does not model the rounding of double.                                  *)
(*                                                                         *)
(* Inputs.  The counts per revolution come from the encoder and are        *)
(* positive, and the track width is positive; wheel diameters are any      *)
(* integer, zero and negative ones included.  Every call of the object is  *)
(* one atomic step: the encoders and the clock move only between calls.    *)
(* The encoders' counts are integers without a width.  As the source asks  *)
(* ("You must call setup before using this object to do anything"), the    *)
(* other operations are called only after setup.                           *)
(***************************************************************************)
EXTENDS Integers, FiniteSets

VARIABLES
    \* calibration, written by setup
    wheelDiameter, countsPerRevolution, distancePerCount, encodeFactor,
    trackWidth,
    \* pose, goal and velocities
    X, Y, heading, goalX, goalY, vLeft, vRight, omega,
    \* tick and time bookkeeping
    previousLeftEncoderCounts, previousRightEncoderCounts, previousUpdateTime,
    \* the collaborators: the encoders' cumulative raw counts and millis()
    encoderCount, clock,
    \* the caller's two outputs of translateToLeftRightVelocities
    normLeft, normRight,
    \* history: whether setup has run, the most recent step with the locals
    \* of the call, whether heading was last written by setCurrentPosition,
    \* and per wheel the sign-adjusted ticks produced by the encoder and
    \* integrated by update since the last reset the caller issued
    isSetup, last, headingFromCaller, produced, integrated

calibrationVars ==
    <<wheelDiameter, countsPerRevolution, distancePerCount, encodeFactor, trackWidth>>
poseVars == <<X, Y, heading>>
goalVars == <<goalX, goalY>>
velocityVars == <<vLeft, vRight, omega>>
counterVars ==
    <<previousLeftEncoderCounts, previousRightEncoderCounts, previousUpdateTime,
      encoderCount>>
outVars == <<normLeft, normRight>>
estimatorVars ==
    <<calibrationVars, poseVars, goalVars, velocityVars, counterVars, clock,
      isSetup, headingFromCaller, produced, integrated>>
vars == <<estimatorVars, outVars, last>>

---------------------------------------------------------------------------
(* Constants of the program *)

MOTOR_LEFT == 0
MOTOR_RIGHT == 1
Wheels == {MOTOR_LEFT, MOTOR_RIGHT}

\* pi, in quarter turns
PI == 2
\* the 1000.0 of the velocity formulas: milliseconds per second
MillisPerSecond == 1000
\* the 32000 of the overflow guard
OverflowThreshold == 32000
\* the float 1.0 of constrain(.., -1, +1), in tenths
One == 10

---------------------------------------------------------------------------
(* Bounds of the model *)

\* the clock is followed up to this many milliseconds
MaxTime == 2
\* Spec: the raw encoder counts stay within -MaxTicks .. MaxTicks
MaxTicks == 1
\* Spec: update is followed while |X| and |Y| stay within MaxCoord
MaxCoord == 2
\* SpecCounters: the raw encoder counts stay within -MaxCount .. MaxCount
MaxCount == 33000
\* SpecCounters: the ticks a wheel produces between two resets of the caller
MaxTravel == 34000
\* SpecCounters: update is followed while |X| and |Y| stay within this
MaxCoordCounters == 70000
\* SpecMixer: the commands range over -MaxCommand .. MaxCommand tenths
MaxCommand == 12

---------------------------------------------------------------------------
(* Arithmetic *)

Abs(a) == IF a < 0 THEN -a ELSE a

\* a / b in double, b # 0: exact wherever b divides a
Quot(a, b) == IF b > 0 THEN a \div b ELSE (-a) \div (-b)

\* cos and sin of an angle given in quarter turns
Cos(a) == CASE a % 4 = 0 -> 1 [] a % 4 = 1 -> 0 [] a % 4 = 2 -> -1 [] OTHER -> 0
Sin(a) == CASE a % 4 = 0 -> 0 [] a % 4 = 1 -> 1 [] a % 4 = 2 -> 0 [] OTHER -> -1

\* the range the code's comment gives to atan2: -pi <= result < pi
Atan2HalfOpenBelow(y, x) ==
    IF y = 0 THEN (IF x >= 0 THEN 0 ELSE -PI)
    ELSE IF y > 0 THEN PI \div 2 ELSE -(PI \div 2)

\* atan2 on the axes, in quarter turns: the result lies in (-pi, pi]
Atan2(y, x) ==
    IF y = 0 THEN (IF x >= 0 THEN 0 ELSE PI)
    ELSE IF y > 0 THEN PI \div 2 ELSE -(PI \div 2)

\* a heading left as it is
NormalizeHeadingSkipped(h) == h

\* heading = atan2(sin(heading), cos(heading))
NormalizeHeading(h) == Atan2(Sin(h), Cos(h))

InRange(h) == -PI < h /\ h <= PI

---------------------------------------------------------------------------
(* setup *)

\* distancePerCount[i] = (PI * wheelDiameter[i]) / countsPerRevolution[i]
DistancePerCount(diameter, counts) == Quot(PI * diameter, counts)

EncodeFactor(isEncoderForward) == IF isEncoderForward THEN 1 ELSE -1

Zeros == [i \in Wheels |-> 0]

\* reset() that forgets to clear the previous counts
ResetKeepsPrevious ==
    /\ encoderCount' = Zeros
    /\ UNCHANGED <<previousLeftEncoderCounts, previousRightEncoderCounts>>
    /\ previousUpdateTime' = clock

\* reset(): zero both encoders and the previous counts, stamp the time
reset ==
    /\ encoderCount' = Zeros
    /\ previousLeftEncoderCounts' = 0
    /\ previousRightEncoderCounts' = 0
    /\ previousUpdateTime' = clock

Setup(c) ==
    /\ wheelDiameter' = c.diameter
    /\ countsPerRevolution' = c.counts
    /\ distancePerCount' =
           [i \in Wheels |-> DistancePerCount(c.diameter[i], c.counts[i])]
    /\ encodeFactor' = [i \in Wheels |-> EncodeFactor(c.forward[i])]
    /\ X' = 0
    /\ Y' = 0
    /\ heading' = 0
    /\ goalX' = 0
    /\ goalY' = 0
    /\ vLeft' = 0
    /\ vRight' = 0
    /\ trackWidth' = c.track
    /\ reset
    /\ isSetup' = TRUE
    /\ headingFromCaller' = FALSE
    /\ produced' = Zeros
    /\ integrated' = Zeros
    /\ last' = [op |-> "setup"]
    /\ UNCHANGED <<omega, clock, outVars>>

Reset ==
    /\ isSetup
    /\ reset
    /\ produced' = Zeros
    /\ integrated' = Zeros
    /\ last' = [op |-> "reset"]
    /\ UNCHANGED <<calibrationVars, poseVars, goalVars, velocityVars, clock,
                   outVars, isSetup, headingFromCaller>>

SetCurrentPosition(x, y, inHeading) ==
    /\ isSetup
    /\ reset
    /\ X' = x
    /\ Y' = y
    /\ heading' = inHeading
    /\ headingFromCaller' = TRUE
    /\ produced' = Zeros
    /\ integrated' = Zeros
    /\ last' = [op |-> "setPose"]
    /\ UNCHANGED <<calibrationVars, goalVars, velocityVars, clock, outVars, isSetup>>

SetGoalPosition(x, y) ==
    /\ isSetup
    /\ goalX' = x
    /\ goalY' = y
    /\ last' = [op |-> "setGoal"]
    /\ UNCHANGED <<calibrationVars, poseVars, velocityVars, counterVars, clock,
                   outVars, isSetup, headingFromCaller, produced, integrated>>

---------------------------------------------------------------------------
(* update *)

\* calculateDeltasCrude without the factor 0.5
DeltaDistanceNotHalved(deltaDistanceLeft, deltaDistanceRight) ==
    deltaDistanceLeft + deltaDistanceRight

\* calculateDeltasCrude: deltaDistance = 0.5 * (left + right)
DeltaDistance(deltaDistanceLeft, deltaDistanceRight) ==
    (deltaDistanceLeft + deltaDistanceRight) \div 2

\* calculateDeltasCrude: the displacement projected on the current heading
CrudeDeltaX(h, deltaDistanceLeft, deltaDistanceRight) ==
    DeltaDistance(deltaDistanceLeft, deltaDistanceRight) * Cos(h)
CrudeDeltaY(h, deltaDistanceLeft, deltaDistanceRight) ==
    DeltaDistance(deltaDistanceLeft, deltaDistanceRight) * Sin(h)

\* deltaHeading = (deltaDistanceRight - deltaDistanceLeft) / trackWidth
DeltaHeading(deltaDistanceLeft, deltaDistanceRight, width) ==
    Quot(deltaDistanceRight - deltaDistanceLeft, width)

\* a velocity that is zeroed when no time has elapsed
VelocityZeroedWithoutTime(delta, deltaTime, previous) ==
    IF deltaTime # 0 THEN Quot(delta * MillisPerSecond, deltaTime) ELSE 0

\* if(deltaTime != 0) v = delta * 1000.0 / deltaTime; otherwise v is kept
UpdatedVelocity(delta, deltaTime, previous) ==
    IF deltaTime # 0 THEN Quot(delta * MillisPerSecond, deltaTime) ELSE previous

\* a guard that wants both counts over the threshold
BothCountsTooBig(leftCounts, rightCounts) ==
    leftCounts > OverflowThreshold /\ rightCounts > OverflowThreshold

\* (previousLeftEncoderCounts > 32000) || (previousRightEncoderCounts > 32000)
CountsTooBig(leftCounts, rightCounts) ==
    leftCounts > OverflowThreshold \/ rightCounts > OverflowThreshold

InArena(x, y, maxCoord) == Abs(x) <= maxCoord /\ Abs(y) <= maxCoord

Update(maxCoord) ==
    /\ isSetup
    /\ LET leftEncoderCounts ==
               encoderCount[MOTOR_LEFT] * encodeFactor[MOTOR_LEFT]
           rightEncoderCounts ==
               encoderCount[MOTOR_RIGHT] * encodeFactor[MOTOR_RIGHT]
           deltaLeftTicks == leftEncoderCounts - previousLeftEncoderCounts
           deltaRightTicks == rightEncoderCounts - previousRightEncoderCounts
           currentTime == clock
           deltaTime == currentTime - previousUpdateTime
           deltaDistanceLeft == deltaLeftTicks * distancePerCount[MOTOR_LEFT]
           deltaDistanceRight == deltaRightTicks * distancePerCount[MOTOR_RIGHT]
           deltaHeading ==
               DeltaHeading(deltaDistanceLeft, deltaDistanceRight, trackWidth)
           deltaX == CrudeDeltaX(heading, deltaDistanceLeft, deltaDistanceRight)
           deltaY == CrudeDeltaY(heading, deltaDistanceLeft, deltaDistanceRight)
           tooBig == CountsTooBig(leftEncoderCounts, rightEncoderCounts)
       IN
       /\ InArena(X + deltaX, Y + deltaY, maxCoord)
       /\ vLeft' = UpdatedVelocity(deltaDistanceLeft, deltaTime, vLeft)
       /\ vRight' = UpdatedVelocity(deltaDistanceRight, deltaTime, vRight)
       /\ omega' = UpdatedVelocity(deltaHeading, deltaTime, omega)
       /\ X' = X + deltaX
       /\ Y' = Y + deltaY
       /\ heading' = NormalizeHeading(heading + deltaHeading)
       /\ IF tooBig
          THEN reset
          ELSE /\ previousLeftEncoderCounts' = leftEncoderCounts
               /\ previousRightEncoderCounts' = rightEncoderCounts
               /\ previousUpdateTime' = currentTime
               /\ UNCHANGED encoderCount
       /\ integrated' =
              [i \in Wheels |->
                  integrated[i]
                  + (IF i = MOTOR_LEFT THEN deltaLeftTicks ELSE deltaRightTicks)]
       /\ last' = [op |-> "update",
                   headingBefore |-> heading,
                   deltaLeftTicks |-> deltaLeftTicks,
                   deltaRightTicks |-> deltaRightTicks,
                   deltaTime |-> deltaTime,
                   didReset |-> tooBig]
    /\ headingFromCaller' = FALSE
    /\ UNCHANGED <<calibrationVars, goalVars, clock, outVars, isSetup, produced>>

---------------------------------------------------------------------------
(* translateToLeftRightVelocities *)

\* constrain that forgets the lower limit
ConstrainAbove(amt, low, high) == IF amt > high THEN high ELSE amt

\* Arduino's constrain(amt, low, high)
Constrain(amt, low, high) ==
    IF amt < low THEN low ELSE IF amt > high THEN high ELSE amt

TranslateToLeftRightVelocities(normedLinearVelocity, normedLinearAngularVelocity) ==
    /\ LET leftVelocity == normedLinearVelocity - normedLinearAngularVelocity
           rightVelocity == normedLinearVelocity + normedLinearAngularVelocity
       IN
       /\ normLeft' = Constrain(leftVelocity, -One, One)
       /\ normRight' = Constrain(rightVelocity, -One, One)
    /\ last' = [op |-> "translate",
                linear |-> normedLinearVelocity,
                angular |-> normedLinearAngularVelocity]
    /\ UNCHANGED estimatorVars

---------------------------------------------------------------------------
(* The collaborators *)

\* The wheels turn: the raw counts change by the pair move = <<left, right>>.
\* maxCount bounds the raw counts and maxTravel the ticks since the caller's
\* last reset that the model follows; maxPending bounds the ticks one wheel
\* produces between two updates.
EncoderMove(move, maxCount, maxTravel, maxPending) ==
    /\ isSetup
    /\ move # <<0, 0>>
    /\ LET step == [i \in Wheels |-> IF i = MOTOR_LEFT THEN move[1] ELSE move[2]]
           previous ==
               [i \in Wheels |->
                   IF i = MOTOR_LEFT THEN previousLeftEncoderCounts
                   ELSE previousRightEncoderCounts]
       IN
       /\ \A i \in Wheels :
              /\ Abs(encoderCount[i] + step[i]) <= maxCount
              /\ Abs(produced[i] + step[i] * encodeFactor[i]) <= maxTravel
              /\ Abs((encoderCount[i] + step[i]) * encodeFactor[i] - previous[i])
                     <= maxPending
       /\ encoderCount' = [i \in Wheels |-> encoderCount[i] + step[i]]
       /\ produced' = [i \in Wheels |-> produced[i] + step[i] * encodeFactor[i]]
    /\ last' = [op |-> "move"]
    /\ UNCHANGED <<calibrationVars, poseVars, goalVars, velocityVars,
                   previousLeftEncoderCounts, previousRightEncoderCounts,
                   previousUpdateTime, clock, outVars, isSetup,
                   headingFromCaller, integrated>>

\* millis() advances
ClockTick ==
    /\ clock < MaxTime
    /\ clock' = clock + 1
    /\ last' = [op |-> "tick"]
    /\ UNCHANGED <<calibrationVars, poseVars, goalVars, velocityVars, counterVars,
                   outVars, isSetup, headingFromCaller, produced, integrated>>

---------------------------------------------------------------------------
(* Inputs *)

\* what setup is called with: diameters, the encoders' counts per
\* revolution and directions, the track width
Calibration(dl, dr, cl, cr, fl, fr, w) ==
    [diameter |-> [i \in Wheels |-> IF i = MOTOR_LEFT THEN dl ELSE dr],
     counts |-> [i \in Wheels |-> IF i = MOTOR_LEFT THEN cl ELSE cr],
     forward |-> [i \in Wheels |-> IF i = MOTOR_LEFT THEN fl ELSE fr],
     track |-> w]

Calibrations ==
    { Calibration(1, 1, 1, 1, TRUE, TRUE, 2),      \* equal wheels
      Calibration(2, 2, 2, 1, TRUE, TRUE, 2),      \* fewer counts on the right
      Calibration(4, 4, 1, 1, TRUE, FALSE, 1),     \* right encoder reversed
      Calibration(0, -1, 1, 1, TRUE, TRUE, 2) }    \* a zero, a negative diameter

CounterCalibrations ==
    { Calibration(1, 1, 1, 1, TRUE, TRUE, 2),
      Calibration(1, 1, 1, 1, TRUE, FALSE, 2),
      Calibration(1, 1, 1, 1, FALSE, TRUE, 2) }

TimedCalibrations == { Calibration(1, 2, 1, 1, TRUE, FALSE, 2) }
TimedMoves == {<<1, 1>>, <<-1, -1>>, <<1, 0>>}

SmallMoves == {<<1, 0>>, <<-1, 0>>, <<0, 1>>, <<0, -1>>}

Int16Max == 2^15 - 1
\* the ticks per interval that keep a 16 bit count between two guards
MaxTicksPerInterval == Int16Max - OverflowThreshold
CounterMoves ==
    {<<MaxTicksPerInterval, MaxTicksPerInterval>>,
     <<-MaxTicksPerInterval, -MaxTicksPerInterval>>}

MixerCalibrations == { Calibration(1, 2, 1, 1, TRUE, FALSE, 2) }
MixerPoseArgs == {<<2, -2, 5>>}

PoseArgs == {<<0, -2, 5>>, <<2, 0, -2>>}
GoalArgs == {<<3, 4>>}
Indeterminate == {0, 7}

---------------------------------------------------------------------------
(* Specifications *)

\* After construction: the constructor sets nothing.  Every field but omega
\* is written by setup before it is read; omega is not, and starts with
\* whatever the storage holds.
Init ==
    /\ wheelDiameter = Zeros
    /\ countsPerRevolution = Zeros
    /\ distancePerCount = Zeros
    /\ encodeFactor = Zeros
    /\ trackWidth = 0
    /\ X = 0 /\ Y = 0 /\ heading = 0
    /\ goalX = 0 /\ goalY = 0
    /\ vLeft = 0 /\ vRight = 0
    /\ omega \in Indeterminate
    /\ previousLeftEncoderCounts = 0
    /\ previousRightEncoderCounts = 0
    /\ previousUpdateTime = 0
    /\ encoderCount = Zeros
    /\ clock = 0
    /\ normLeft = 0 /\ normRight = 0
    /\ isSetup = FALSE
    /\ headingFromCaller = FALSE
    /\ produced = Zeros
    /\ integrated = Zeros
    /\ last = [op |-> "construct"]

\* the estimator driven in small steps, on a stopped clock
Next ==
    \/ \E c \in Calibrations : Setup(c)
    \/ Reset
    \/ \E p \in PoseArgs : SetCurrentPosition(p[1], p[2], p[3])
    \/ \E m \in SmallMoves : EncoderMove(m, MaxTicks, MaxTicks, MaxTicks)
    \/ Update(MaxCoord)

Spec == Init /\ [][Next]_vars

\* the estimator driven in small steps while the clock runs
NextTimed ==
    \/ \E c \in TimedCalibrations : Setup(c)
    \/ \E g \in GoalArgs : SetGoalPosition(g[1], g[2])
    \/ \E m \in TimedMoves : EncoderMove(m, MaxTicks, MaxTicks, MaxTicks)
    \/ ClockTick
    \/ Update(MaxCoord)

SpecTimed == Init /\ [][NextTimed]_vars

\* the estimator driven towards the overflow guard, at most
\* MaxTicksPerInterval ticks per wheel between two updates
NextCounters ==
    \/ \E c \in CounterCalibrations : Setup(c)
    \/ Reset
    \/ \E m \in CounterMoves : EncoderMove(m, MaxCount, MaxTravel, MaxTicksPerInterval)
    \/ Update(MaxCoordCounters)

SpecCounters == Init /\ [][NextCounters]_vars

\* the mixer applied to every pair of commands, the estimator set up or not
NextMixer ==
    \/ \E c \in MixerCalibrations : Setup(c)
    \/ \E p \in MixerPoseArgs : SetCurrentPosition(p[1], p[2], p[3])
    \/ \E l, a \in -MaxCommand .. MaxCommand : TranslateToLeftRightVelocities(l, a)

SpecMixer == Init /\ [][NextMixer]_vars

---------------------------------------------------------------------------
(* Properties *)

DistanceLeft(ticks) == ticks * distancePerCount[MOTOR_LEFT]
DistanceRight(ticks) == ticks * distancePerCount[MOTOR_RIGHT]

\* the pose after an update step is the pose before it advanced by the
\* displacement and the heading change of the tick deltas the step read
PoseAdvanced ==
    LET dl == DistanceLeft(last'.deltaLeftTicks)
        dr == DistanceRight(last'.deltaRightTicks)
    IN /\ 2 * (X' - X) = (dl + dr) * Cos(heading)
       /\ 2 * (Y' - Y) = (dl + dr) * Sin(heading)
       /\ (heading' * trackWidth - (heading * trackWidth + (dr - dl)))
              % (2 * PI * trackWidth) = 0
       /\ InRange(heading')

\* C1: after setup, distancePerCount is positive for both wheels (setup
\* has no way to refuse a calibration, so every call of it succeeds).
C1_DistancePerCountPositive ==
    isSetup => \A i \in Wheels : distancePerCount[i] > 0

C3_ZeroTimeKeepsVelocities ==
    [][(last'.op = "update" /\ last'.deltaTime = 0)
           => /\ vLeft' = vLeft
              /\ vRight' = vRight
              /\ omega' = omega
              /\ PoseAdvanced]_vars

\* an update with no elapsed time and both wheels moved, which turned the
\* vehicle, while all three velocities are non-zero
C3_Witness ==
    /\ last.op = "update"
    /\ last.deltaTime = 0
    /\ last.deltaLeftTicks # 0
    /\ last.deltaRightTicks # 0
    /\ heading # last.headingBefore
    /\ vLeft # 0 /\ vRight # 0 /\ omega # 0

\* C4: an update that reads a sign-adjusted count above the threshold for
\* either wheel returns with both encoders and both previous counts at 0 and
\* the previous time stamped; an update that reads none above it leaves the
\* encoders alone and stores the counts it read; either way X, Y and heading
\* are those integrated by this update.
C4_OverflowGuardResets ==
    [][last'.op = "update"
           => LET l == encoderCount[MOTOR_LEFT] * encodeFactor[MOTOR_LEFT]
                  r == encoderCount[MOTOR_RIGHT] * encodeFactor[MOTOR_RIGHT]
                  over == l > OverflowThreshold \/ r > OverflowThreshold
              IN /\ over => /\ encoderCount' = Zeros
                            /\ previousLeftEncoderCounts' = 0
                            /\ previousRightEncoderCounts' = 0
                            /\ previousUpdateTime' = clock'
                 /\ ~over => /\ encoderCount' = encoderCount
                             /\ previousLeftEncoderCounts' = l
                             /\ previousRightEncoderCounts' = r
                 /\ PoseAdvanced]_vars

\* an update that reset the counters because the left count alone crossed
\* the threshold, in a state whose heading the crossing interval turned
C4_Witness ==
    /\ last.op = "update"
    /\ last.didReset
    /\ last.deltaLeftTicks > 0
    /\ last.deltaRightTicks < 0
    /\ integrated[MOTOR_LEFT] > OverflowThreshold
    /\ integrated[MOTOR_RIGHT] < 0
    /\ heading # last.headingBefore
    /\ encoderCount = Zeros

\* C5: the mixer returns left = clamp(linear - angular), right =
\* clamp(linear + angular), both within [-1, 1], for every pair of commands,
\* and leaves the estimator as it was.
C5_MixerClamps ==
    [][last'.op = "translate"
           => LET l == last'.linear - last'.angular
                  r == last'.linear + last'.angular
              IN /\ normLeft' = (IF l < -One THEN -One ELSE IF l > One THEN One ELSE l)
                 /\ normRight' = (IF r < -One THEN -One ELSE IF r > One THEN One ELSE r)
                 /\ normLeft' \in -One .. One
                 /\ normRight' \in -One .. One
                 /\ UNCHANGED estimatorVars]_vars

\* the mixer applied to (0.5, 0.8) on an estimator that holds a pose
C5_Witness ==
    /\ last.op = "translate"
    /\ last.linear = 5
    /\ last.angular = 8
    /\ normLeft = -3
    /\ normRight = One
    /\ isSetup
    /\ heading # 0

\* C6: when setup returns, pose, velocities (the angular one included) and
\* goal are 0, the encoders and the previous counts are 0, and the previous
\* time is the clock's.
C6_SetupZeroesEverything ==
    last.op = "setup"
        => /\ X = 0 /\ Y = 0 /\ heading = 0
           /\ vLeft = 0 /\ vRight = 0 /\ omega = 0
           /\ goalX = 0 /\ goalY = 0
           /\ encoderCount = Zeros
           /\ previousLeftEncoderCounts = 0
           /\ previousRightEncoderCounts = 0
           /\ previousUpdateTime = clock

\* along(dx, dy, h): the displacement has no component across the heading
\* h and none against it
Along(dx, dy, h) ==
    /\ dx * Sin(h) - dy * Cos(h) = 0
    /\ dx * Cos(h) + dy * Sin(h) >= 0

\* two headings that name the same direction: equal up to full turns
SameDirection(h1, h2) == (h1 - h2) % (2 * PI) = 0

\* C7 as claimed: for any calibration with positive distancePerCount on both
\* wheels, an update with equal positive tick deltas leaves the heading as it
\* was (compared up to full turns) and moves (X, Y) along that heading.
C7_EqualTicksKeepHeading ==
    [][(/\ last'.op = "update"
        /\ last'.deltaLeftTicks = last'.deltaRightTicks
        /\ last'.deltaLeftTicks > 0
        /\ \A i \in Wheels : distancePerCount[i] > 0)
           => /\ SameDirection(heading', heading)
              /\ Along(X' - X, Y' - Y, heading)]_vars

\* C7 as amended: when both wheels have the same distancePerCount, an update
\* with equal positive tick deltas keeps the heading's direction, stores it
\* within (-pi, pi] (so a heading already in range is unchanged), and moves
\* (X, Y) by deltaTicks * distancePerCount along (cos heading, sin heading).
C7_EqualDistanceKeepsHeading ==
    [][(/\ last'.op = "update"
        /\ last'.deltaLeftTicks = last'.deltaRightTicks
        /\ last'.deltaLeftTicks > 0
        /\ distancePerCount[MOTOR_LEFT] = distancePerCount[MOTOR_RIGHT])
           => /\ SameDirection(heading', heading)
              /\ InRange(heading')
              /\ InRange(heading) => heading' = heading
              /\ X' - X = DistanceLeft(last'.deltaLeftTicks) * Cos(heading)
              /\ Y' - Y = DistanceLeft(last'.deltaLeftTicks) * Sin(heading)]_vars

\* an update with equal positive tick deltas on equal wheels, from a heading
\* in range other than 0, that moved the vehicle
C7_Witness ==
    /\ last.op = "update"
    /\ last.deltaLeftTicks = last.deltaRightTicks
    /\ last.deltaLeftTicks > 0
    /\ distancePerCount[MOTOR_LEFT] = distancePerCount[MOTOR_RIGHT]
    /\ distancePerCount[MOTOR_LEFT] > 0
    /\ InRange(last.headingBefore)
    /\ heading = last.headingBefore
    /\ heading # 0
    /\ \A p \in PoseArgs : <<X, Y>> # <<p[1], p[2]>>

PendingTicks(i) ==
    encoderCount[i] * encodeFactor[i]
    - (IF i = MOTOR_LEFT THEN previousLeftEncoderCounts
       ELSE previousRightEncoderCounts)

\* C8: per wheel, the tick deltas integrated since the caller's last reset,
\* plus the ticks the next update will read, are the sign-adjusted ticks the
\* encoder produced since then; right after an update the two sums agree.
C8_TicksConserved ==
    isSetup
        => /\ \A i \in Wheels : integrated[i] + PendingTicks(i) = produced[i]
           /\ last.op = "update" => integrated = produced

\* an update later than an overflow reset: more ticks are integrated than
\* the guard lets a count reach
C8_Witness ==
    /\ last.op = "update"
    /\ ~last.didReset
    /\ integrated[MOTOR_LEFT] > OverflowThreshold + MaxTicksPerInterval
    /\ integrated = produced
    /\ encoderCount[MOTOR_LEFT] = MaxTicksPerInterval

\* C9: with at most MaxTicksPerInterval ticks per wheel between two updates,
\* the cumulative counts stay within the 16 bit signed range.
C9_CountsStayInInt16 ==
    \A i \in Wheels : encoderCount[i] \in -(Int16Max + 1) .. Int16Max

\* C10 as claimed: heading lies in (-pi, pi] in every state after setup.
C10_HeadingAlwaysNormalized ==
    isSetup => InRange(heading)

\* C10 as amended: heading lies in (-pi, pi] in every state after setup in
\* which the heading was not last written by setCurrentPosition.
C10_HeadingNormalizedUnlessSetByCaller ==
    (isSetup /\ ~headingFromCaller) => InRange(heading)

\* a heading set out of range by the caller and wrapped by an update
C10_Witness ==
    /\ last.op = "update"
    /\ ~headingFromCaller
    /\ ~InRange(last.headingBefore)
    /\ InRange(heading)
    /\ heading = PI \div 2

=============================================================================
